---- MODULE Spec2Model ----
(***************************************************************************)
(* zarrs_zip: a read-only store over the entries of a zip archive that is  *)
(* itself one blob of a backing store (src/src/lib.rs, src/src/sync.rs).   *)
(*                                                                         *)
(* Path strings are sequences of byte values (ASCII codes), compared the   *)
(* way Rust compares str: bytewise, a proper prefix first.                 *)
(***************************************************************************)
EXTENDS Integers, Sequences, FiniteSets, TLC

(***************************************************************************)
(* Bounds of the model.                                                    *)
(***************************************************************************)
\* longest entry name of a listing archive
MaxNameLen == 3
\* most entries of a listing archive
MaxEntries == 2
\* largest uncompressed size of an entry that is read
MaxSize == 2
\* most byte ranges of one get_partial_many request
MaxRanges == 2
\* most advance steps of one decompression
MaxSteps == 2
\* longest entry name, and most entries, of an archive of nested directories
DeepNameLen == 4
DeepEntries == 3
\* most reads in progress at once
MaxReaders == 2
\* most entries of an archive that is opened
OpenEntries == 2

\* the path separator
Slash == 47
\* bytes of the alphabet the entry names are drawn from: '.', '/', 'a'
Alphabet == {46, 47, 97}
\* u64::MAX, the largest offset, length or size, with the 64 bits scaled down
\* to 20: every entry that is read is smaller, no range value is larger
U64Max == 1048575

None == [tag |-> "None"]
Some(x) == [tag |-> "Some", val |-> x]

Min(a, b) == IF a < b THEN a ELSE b

(***************************************************************************)
(* Strings.                                                                *)
(***************************************************************************)
Strings(n) == UNION {[1..k -> Alphabet] : k \in 0..n}

\* str::cmp, Less
StrLt(a, b) ==
    \E i \in 1..(Len(a) + 1) :
        /\ i <= Len(b)
        /\ \A j \in 1..(i - 1) : a[j] = b[j]
        /\ (i = Len(a) + 1 \/ a[i] < b[i])

\* str::starts_with
StartsWith(s, p) == Len(p) <= Len(s) /\ SubSeq(s, 1, Len(p)) = p

\* str::strip_prefix
StripPrefix(s, p) ==
    IF StartsWith(s, p) THEN Some(SubSeq(s, Len(p) + 1, Len(s))) ELSE None

\* str::find('/'): the 1-based position of the first separator, 0 when none
FindSlash(s) ==
    IF \E i \in 1..Len(s) : s[i] = Slash
    THEN CHOOSE i \in 1..Len(s) : s[i] = Slash /\ \A j \in 1..(i - 1) : s[j] # Slash
    ELSE 0

\* str::contains('/')
ContainsSlash(s) == FindSlash(s) # 0

\* str::trim_end_matches('/'): every trailing separator removed
RECURSIVE TrimEndSlashes(_)
TrimEndSlashes(s) ==
    IF Len(s) > 0 /\ s[Len(s)] = Slash
    THEN TrimEndSlashes(SubSeq(s, 1, Len(s) - 1))
    ELSE s

\* StoreKey::try_from: a key neither starts nor ends with the separator
ValidKey(s) == ~(Len(s) > 0 /\ s[1] = Slash) /\ ~(Len(s) > 0 /\ s[Len(s)] = Slash)

\* StorePrefix::try_from: the empty prefix, or one that ends with the
\* separator and does not start with it
ValidPrefix(s) == Len(s) = 0 \/ (s[Len(s)] = Slash /\ s[1] # Slash)

\* StoreKey::parent: the key up to and including its last separator
RECURSIVE KeyParent(_)
KeyParent(k) ==
    IF Len(k) = 0 THEN <<>>
    ELSE IF k[Len(k)] = Slash THEN k
    ELSE KeyParent(SubSeq(k, 1, Len(k) - 1))

(***************************************************************************)
(* The index: ZipStorageAdapter's entries and sorted_entries.              *)
(***************************************************************************)
\* ZipEntry::Key / ZipEntry::Prefix
ZKey(s) == [variant |-> "Key", str |-> s]
ZPrefix(s) == [variant |-> "Prefix", str |-> s]

\* a strip that keeps a name that does not start with the root
StripOrKeep(name, zip_path) ==
    LET r == StripPrefix(name, zip_path)
    IN  IF r.tag = "None" THEN Some(name)
        ELSE IF Len(r.val) > 0 THEN r ELSE None

\* Path::to_str: the path as a str when its bytes are valid UTF-8 (of the
\* bytes of this model those below 128 are, the byte 255 never is)
PathToStr(path) ==
    IF \A i \in 1..Len(path) : path[i] < 128 THEN Some(path) ELSE None

\* Option::unwrap_or
UnwrapOr(opt, default) == IF opt.tag = "Some" THEN opt.val ELSE default

strip_zip_path_prefix(name, zip_path) ==
    LET prefix == UnwrapOr(PathToStr(zip_path), <<>>)
        r == StripPrefix(name, prefix)
    IN  IF r.tag = "Some" /\ Len(r.val) > 0 THEN r ELSE None

\* Vec::sort_by(|a, b| a.as_str().cmp(b.as_str())): a stable sort, here by
\* insertion after the last element that is not greater
RECURSIVE InsertSorted(_, _)
InsertSorted(sorted, e) ==
    IF Len(sorted) = 0 THEN <<e>>
    ELSE IF StrLt(e.str, sorted[Len(sorted)].str)
         THEN Append(InsertSorted(SubSeq(sorted, 1, Len(sorted) - 1), e),
                     sorted[Len(sorted)])
         ELSE Append(sorted, e)

RECURSIVE SortByStr(_)
SortByStr(s) ==
    IF Len(s) = 0 THEN <<>>
    ELSE InsertSorted(SortByStr(SubSeq(s, 1, Len(s) - 1)), s[Len(s)])

\* a loop that passes over an entry whose stripped name is not valid
RECURSIVE IndexFromSkipping(_, _, _, _)
IndexFromSkipping(parsed, zip_path, i, acc) ==
    IF i > Len(parsed) THEN acc
    ELSE
      LET entry == parsed[i]
          st == strip_zip_path_prefix(entry.name, zip_path)
      IN  IF st.tag = "Some" /\ entry.kind = "File" /\ ValidKey(st.val)
          THEN IndexFromSkipping(parsed, zip_path, i + 1,
                 [ok |-> TRUE,
                  entries |-> [k \in (DOMAIN acc.entries) \cup {st.val} |->
                                 IF k = st.val THEN entry ELSE acc.entries[k]],
                  sorted_entries |-> Append(acc.sorted_entries, ZKey(st.val))])
          ELSE IF st.tag = "Some" /\ entry.kind = "Directory" /\ ValidPrefix(st.val)
          THEN IndexFromSkipping(parsed, zip_path, i + 1,
                 [acc EXCEPT !.sorted_entries = Append(@, ZPrefix(st.val))])
          ELSE IndexFromSkipping(parsed, zip_path, i + 1, acc)

\* the loop of new_with_path over archive.entries(), from entry i on; acc is
\* [ok, entries (the HashMap), sorted_entries (unsorted yet)]
RECURSIVE IndexFrom(_, _, _, _)
IndexFrom(parsed, zip_path, i, acc) ==
    IF i > Len(parsed) \/ ~acc.ok THEN acc
    ELSE
      LET entry == parsed[i]
          st == strip_zip_path_prefix(entry.name, zip_path)
      IN  IF st.tag = "None" THEN IndexFrom(parsed, zip_path, i + 1, acc)
          ELSE IF entry.kind = "File" THEN
             IF ~ValidKey(st.val) THEN [acc EXCEPT !.ok = FALSE]
             ELSE IndexFrom(parsed, zip_path, i + 1,
                    [ok |-> TRUE,
                     entries |-> [k \in (DOMAIN acc.entries) \cup {st.val} |->
                                    IF k = st.val THEN entry ELSE acc.entries[k]],
                     sorted_entries |-> Append(acc.sorted_entries, ZKey(st.val))])
          ELSE IF entry.kind = "Directory" THEN
             IF ~ValidPrefix(st.val) THEN [acc EXCEPT !.ok = FALSE]
             ELSE IndexFrom(parsed, zip_path, i + 1,
                    [acc EXCEPT !.sorted_entries = Append(@, ZPrefix(st.val))])
          ELSE IndexFrom(parsed, zip_path, i + 1, acc)

\* new_with_path once the archive is parsed: the index, sorted
BuildIndex(parsed, zip_path) ==
    LET acc == IndexFrom(parsed, zip_path, 1,
                 [ok |-> TRUE, entries |-> <<>>, sorted_entries |-> <<>>])
    IN  [acc EXCEPT !.sorted_entries = SortByStr(@)]

(***************************************************************************)
(* Listing.                                                                *)
(***************************************************************************)
\* slice::partition_point over the truth values b[1..Len(b)] of the
\* predicate: a binary search between left and right (0-based, right
\* exclusive); the result is the number of elements before the point
\* a search that drops the middle element when it narrows to the left
RECURSIVE PartitionSearchNarrow(_, _, _)
PartitionSearchNarrow(b, left, right) ==
    IF left >= right THEN left
    ELSE LET mid == left + ((right - left) \div 2)
         IN  IF b[mid + 1] THEN PartitionSearchNarrow(b, mid + 1, right)
             ELSE PartitionSearchNarrow(b, left, mid - 1)

RECURSIVE PartitionSearch(_, _, _)
PartitionSearch(b, left, right) ==
    IF left >= right THEN left
    ELSE LET mid == left + ((right - left) \div 2)
         IN  IF b[mid + 1] THEN PartitionSearch(b, mid + 1, right)
             ELSE PartitionSearch(b, left, mid)

PartitionPoint(b) == PartitionSearch(b, 0, Len(b))

\* entries_with_prefix: [start, end) as 0-based indices into sorted
EntriesWithPrefixBounds(sorted, prefix) ==
    LET start == PartitionPoint([i \in 1..Len(sorted) |-> StrLt(sorted[i].str, prefix)])
        rest == SubSeq(sorted, start + 1, Len(sorted))
        end == PartitionPoint([i \in 1..Len(rest) |-> StartsWith(rest[i].str, prefix)])
                 + start
    IN  <<start, end>>

entries_with_prefix(sorted, prefix) ==
    LET b == EntriesWithPrefixBounds(sorted, prefix)
    IN  SubSeq(sorted, b[1] + 1, b[2])

\* filter_map(Key(k) => Some(k), Prefix(_) => None)
RECURSIVE KeysOf(_)
KeysOf(s) ==
    IF Len(s) = 0 THEN <<>>
    ELSE IF s[1].variant = "Key" THEN <<s[1].str>> \o KeysOf(Tail(s))
    ELSE KeysOf(Tail(s))

list(sorted) == KeysOf(sorted)

list_prefix(sorted, prefix) == KeysOf(entries_with_prefix(sorted, prefix))

immediate_child_prefix(key, prefix) ==
    LET st == StripPrefix(key, prefix)
    IN  IF st.tag = "None" THEN None
        ELSE LET slash_pos == FindSlash(st.val)
             IN  IF slash_pos # 0
                 THEN LET full_prefix == prefix \o SubSeq(st.val, 1, slash_pos)
                      IN  IF ValidPrefix(full_prefix) THEN Some(full_prefix) ELSE None
                 ELSE None

Last(s) == IF Len(s) = 0 THEN None ELSE Some(s[Len(s)])

\* one iteration of list_dir's loop: acc is [keys, prefixes]
ListDirStep(acc, entry, prefix) ==
    IF entry.variant = "Key" THEN
       IF KeyParent(entry.str) = prefix
       THEN [acc EXCEPT !.keys = Append(@, entry.str)]
       ELSE LET child == immediate_child_prefix(entry.str, prefix)
            IN  IF child.tag = "Some" /\ Last(acc.prefixes) # child
                THEN [acc EXCEPT !.prefixes = Append(@, child.val)]
                ELSE acc
    ELSE
       LET st == StripPrefix(entry.str, prefix)
       IN  IF st.tag = "None" \/ Len(st.val) = 0 THEN acc
           ELSE IF ~ContainsSlash(TrimEndSlashes(st.val))
                   /\ Last(acc.prefixes) # Some(entry.str)
                THEN [acc EXCEPT !.prefixes = Append(@, entry.str)]
                ELSE acc

RECURSIVE ListDirFold(_, _, _)
ListDirFold(acc, slice, prefix) ==
    IF Len(slice) = 0 THEN acc
    ELSE ListDirFold(ListDirStep(acc, slice[1], prefix), Tail(slice), prefix)

list_dir(sorted, prefix) ==
    ListDirFold([keys |-> <<>>, prefixes |-> <<>>],
                entries_with_prefix(sorted, prefix), prefix)

\* size_prefix: the sum of compressed_size over the Key entries of the slice,
\* each looked up in the HashMap (the sizes of the archives that are listed
\* are far below u64::MAX)
RECURSIVE SumCompressedSizes(_, _)
SumCompressedSizes(slice, by_key) ==
    IF Len(slice) = 0 THEN 0
    ELSE (IF slice[1].variant = "Key" /\ slice[1].str \in DOMAIN by_key
          THEN by_key[slice[1].str].compressed_size ELSE 0)
         + SumCompressedSizes(Tail(slice), by_key)

size_prefix(sorted, by_key, prefix) ==
    SumCompressedSizes(entries_with_prefix(sorted, prefix), by_key)

(***************************************************************************)
(* Byte ranges and the backing store.                                      *)
(***************************************************************************)
\* ByteRange::FromStart(start, len) with len = None | Some(l); ByteRange::Suffix(len)
FromStart(start, len) == [kind |-> "FromStart", start |-> start, len |-> len]
Suffix(len) == [kind |-> "Suffix", len |-> len]

\* u64::wrapping_add
WrappingAdd(a, b) == (a + b) % (U64Max + 1)

\* u64::wrapping_sub
WrappingSub(a, b) == (a - b + U64Max + 1) % (U64Max + 1)

\* u64::saturating_add, u64::saturating_sub
SatAdd(a, b) == Min(a + b, U64Max)
SatSub(a, b) == IF a >= b THEN a - b ELSE 0

\* u16::to_le_bytes, as the archive's writer lays a header field out
ToLeBytes(n) == <<n % 256, n \div 256>>

\* the byte of the archive blob at offset o (0-based): the two length fields
\* of each local header at its bytes 26..29, any other byte a function of
\* its offset
BlobByte(b, o) ==
    IF \E h \in DOMAIN b.hdr : o \in (h + 26)..(h + 29)
    THEN LET h == CHOOSE h \in DOMAIN b.hdr : o \in (h + 26)..(h + 29)
         IN  IF o < h + 28 THEN ToLeBytes(b.hdr[h].fnlen)[o - (h + 26) + 1]
             ELSE ToLeBytes(b.hdr[h].extra)[o - (h + 28) + 1]
    ELSE (o * 7 + 1) % 256

\* the backing store's bytes for FromStart(o, Some(n)) of the archive's key
BlobSlice(b, o, n) == [i \in 1..n |-> BlobByte(b, o + i - 1)]

\* whether the backing store can serve FromStart(o, Some(n))
InBlob(b, o, n) == o + n <= b.size

(***************************************************************************)
(* get_impl: validation.                                                   *)
(***************************************************************************)
\* the end that get_impl compares with the entry's uncompressed size
ValidationEnd(range) ==
    IF range.kind = "FromStart"
    THEN IF range.len.tag = "Some" THEN SatAdd(range.start, range.len.val)
         ELSE range.start
    ELSE 0

\* the first range the validation loop rejects (1-based), 0 when none
FirstRejected(ranges, uncompressed_size) ==
    IF \E i \in 1..Len(ranges) : ValidationEnd(ranges[i]) > uncompressed_size
    THEN CHOOSE i \in 1..Len(ranges) :
            /\ ValidationEnd(ranges[i]) > uncompressed_size
            /\ \A j \in 1..(i - 1) : ValidationEnd(ranges[j]) <= uncompressed_size
    ELSE 0

(***************************************************************************)
(* get_stored_entry.                                                       *)
(***************************************************************************)
\* u16::from_le_bytes
FromLeBytes(lo, hi) == lo + 256 * hi

\* a data offset that reads the two length fields high byte first
DataOffsetBigEndian(header_offset, header) ==
    LET filename_len == header[28] + 256 * header[27]
        extra_len == header[30] + 256 * header[29]
    IN  header_offset + 30 + filename_len + extra_len

\* calculate_data_offset, given the 30 header bytes read (1-based sequence)
DataOffsetFromHeader(header_offset, header) ==
    LET filename_len == FromLeBytes(header[27], header[28])
        extra_len == FromLeBytes(header[29], header[30])
    IN  header_offset + 30 + filename_len + extra_len

\* the translation of one requested range to a range of the archive blob
TranslateRange(range, data_offset, uncompressed_size) ==
    IF range.kind = "FromStart"
    THEN LET actual_len == IF range.len.tag = "Some" THEN range.len.val
                           ELSE SatSub(uncompressed_size, range.start)
         IN  FromStart(data_offset + range.start, Some(actual_len))
    ELSE LET start == data_offset + SatSub(uncompressed_size, range.len)
         IN  FromStart(start, Some(Min(range.len, uncompressed_size)))

Translate(ranges, data_offset, uncompressed_size) ==
    [i \in 1..Len(ranges) |-> TranslateRange(ranges[i], data_offset, uncompressed_size)]

(***************************************************************************)
(* get_compressed_entry.                                                   *)
(***************************************************************************)
\* a position of the output buffer that nothing wrote
Uninit == 0 - 1
\* the values a read of an unwritten position can produce
AnyByte == {0, 170}

\* the i-th byte (1-based) of the decompressor's output stream
OutByte(i) == 100 + i

\* the position (1-based) of the output buffer that receives the j-th byte
\* of a process() call: out_slice starts at spare_capacity_mut() of a Vec
\* whose len is still 0
OutPosition(write_offset, j) == j

\* the buffer after a process() call wrote the bytes chunk into out_slice
WriteChunk(buf, write_offset, chunk) ==
    [p \in 1..Len(buf) |->
        IF \E j \in 1..Len(chunk) : OutPosition(write_offset, j) = p
        THEN chunk[CHOOSE j \in 1..Len(chunk) : OutPosition(write_offset, j) = p]
        ELSE buf[p]]

\* ByteRange::to_range_usize: [start, end), or Panic when size - len underflows
ToRange(range, size) ==
    IF range.kind = "FromStart"
    THEN IF range.len.tag = "Some"
         THEN [tag |-> "Range", start |-> range.start, end |-> range.start + range.len.val]
         ELSE [tag |-> "Range", start |-> range.start, end |-> size]
    ELSE IF range.len > size THEN [tag |-> "Panic"]
         ELSE [tag |-> "Range", start |-> size - range.len, end |-> size]

\* the results of get_compressed_entry's loop over the ranges
SliceAll(buf, ranges, size) ==
    IF \E i \in 1..Len(ranges) : ToRange(ranges[i], size).tag = "Panic"
    THEN [tag |-> "Panic"]
    ELSE [tag |-> "Ok",
          bufs |-> [i \in 1..Len(ranges) |->
                      LET r == ToRange(ranges[i], size)
                      IN  SubSeq(buf, r.start + 1, r.end)]]

(***************************************************************************)
(* The state.                                                              *)
(***************************************************************************)
VARIABLES
    zip_path,        \* the root path the adapter was opened with
    parsed,          \* the entries the archive parser emitted
    blob,            \* the archive blob of the backing store: [size, hdr]
    size,            \* ZipStorageAdapter.size
    entries,         \* ZipStorageAdapter.entries
    sorted_entries,  \* ZipStorageAdapter.sorted_entries
    pc,              \* where the operation in progress stands
    op,              \* the operation and its arguments
    result,          \* what the operation returned
    io,              \* the backing-store accesses the operation has issued
    data_offset,     \* get_stored_entry's data_offset
    fsm,             \* decompress_entry's EntryFsm
    read_offset,     \* decompress_entry's read_offset
    decompressed,    \* decompress_entry's output buffer
    write_offset,    \* decompress_entry's write_offset
    stream,          \* the bytes the EntryFsm has written, in order
    threads          \* the calls in progress: [self, saved], self the one that
                     \* runs on the variables above, saved the locals of the others

vars == <<zip_path, parsed, blob, size, entries, sorted_entries, pc, op, result,
          io, data_offset, fsm, read_offset, decompressed, write_offset, stream,
          threads>>

index == <<zip_path, parsed, blob, size, entries, sorted_entries>>
reader == <<data_offset, fsm, read_offset, decompressed, write_offset, stream>>

\* rc_zip::Entry
Entry(name, kind, method, header_offset, compressed_size, uncompressed_size) ==
    [name |-> name, kind |-> kind, method |-> method,
     header_offset |-> header_offset, compressed_size |-> compressed_size,
     uncompressed_size |-> uncompressed_size]

NoOp == [name |-> "none"]
NoResult == [tag |-> "none"]
NoFsm == [wants |-> FALSE, steps |-> 0]

\* the operation-local state before any operation
Idle ==
    /\ pc = "idle"
    /\ op = NoOp
    /\ result = NoResult
    /\ io = <<>>
    /\ data_offset = 0
    /\ fsm = NoFsm
    /\ read_offset = 0
    /\ decompressed = <<>>
    /\ write_offset = 0
    /\ stream = <<>>

\* one call in progress and no other
Alone == [self |-> 1, saved |-> <<>>]

\* the adapter new_with_path returns for an archive [zip_path, parsed, blob]
Opened(a) ==
    LET ix == BuildIndex(a.parsed, a.zip_path)
    IN  /\ ix.ok
        /\ zip_path = a.zip_path
        /\ parsed = a.parsed
        /\ blob = a.blob
        /\ size = a.blob.size
        /\ entries = ix.entries
        /\ sorted_entries = ix.sorted_entries

(***************************************************************************)
(* Archives that are read: a file "a" under the root (stored or            *)
(* compressed, of every size and header layout), a symlink ".", a          *)
(* directory "aa/", and a stored file ".." outside any non-empty root.     *)
(***************************************************************************)
\* [h: the header offset, fnlen, extra: the local header's length fields]
FirstLayout == [h |-> 0, fnlen |-> 1, extra |-> 0]

Layouts == {FirstLayout,
            [h |-> 7, fnlen |-> 3, extra |-> 2],
            [h |-> 0, fnlen |-> 256, extra |-> 1],
            [h |-> 7, fnlen |-> 2, extra |-> 257]}

ReadArchive(root, method, s, l) ==
    LET c == IF method = "Store" THEN s ELSE s + 1
        h2 == l.h + 30 + l.fnlen + l.extra + c
    IN  [zip_path |-> root,
         parsed |-> << Entry(root \o <<97>>, "File", method, l.h, c, s),
                       Entry(root \o <<46>>, "Symlink", "Store", 0, 0, 0),
                       Entry(root \o <<97, 97, Slash>>, "Directory", "Store", 0, 0, 0),
                       Entry(<<46, 46>>, "File", "Store", h2, 1, 1) >>,
         blob |-> [size |-> h2 + 30 + 2 + 0 + 1 + 22,
                   hdr |-> (l.h :> [fnlen |-> l.fnlen, extra |-> l.extra])
                           @@ (h2 :> [fnlen |-> 2, extra |-> 0])]]

\* a stored file of every size and layout and a compressed file of every
\* size under the empty root, and one archive of each method under "a/"
ReadArchives ==
    {ReadArchive(<<>>, "Store", s, l) : s \in 0..MaxSize, l \in Layouts}
    \cup {ReadArchive(<<>>, "Deflate", s, FirstLayout) : s \in 0..MaxSize}
    \cup {ReadArchive(<<97, Slash>>, method, 1, FirstLayout) :
             method \in {"Store", "Deflate"}}

\* the keys that are asked for
ReadKeys == {<<97>>, <<46>>, <<97, 97>>, <<46, 46>>}

\* the offsets and lengths of the requested ranges
RangeValues == (0..(MaxSize + 1)) \cup {U64Max}

Ranges ==
    {FromStart(s, Some(l)) : s \in RangeValues, l \in RangeValues}
    \cup {FromStart(s, None) : s \in RangeValues}
    \cup {Suffix(l) : l \in RangeValues}

Batches == UNION {[1..n -> Ranges] : n \in 0..MaxRanges}

\* what an access to the backing store can come to
StoreOutcomes == {"ok", "err", "absent"}

\* the buffer space the EntryFsm can offer
Spaces == {64}

Error(msg) == [tag |-> "Error", msg |-> msg]

Init ==
    /\ \E a \in ReadArchives : Opened(a)
    /\ Idle
    /\ threads = Alone

(***************************************************************************)
(* get_partial_many.                                                       *)
(***************************************************************************)
\* get_impl up to the choice of the path
GetPartialMany(key, byte_ranges) ==
    /\ pc = "idle"
    /\ op' = [name |-> "get_partial_many", key |-> key, ranges |-> byte_ranges]
    /\ UNCHANGED <<index, threads, io, data_offset, stream>>
    /\ IF key \notin DOMAIN entries
       THEN /\ result' = [tag |-> "NotFound"]
            /\ pc' = "done"
            /\ UNCHANGED <<fsm, read_offset, decompressed, write_offset>>
       ELSE LET entry == entries[key]
                rej == FirstRejected(byte_ranges, entry.uncompressed_size)
            IN  IF rej # 0
                THEN /\ result' = [tag |-> "InvalidByteRange",
                                   range |-> byte_ranges[rej],
                                   size |-> entry.uncompressed_size]
                     /\ pc' = "done"
                     /\ UNCHANGED <<fsm, read_offset, decompressed, write_offset>>
                ELSE IF entry.method = "Store"
                THEN /\ pc' = "read_header"
                     /\ UNCHANGED <<result, fsm, read_offset, decompressed, write_offset>>
                ELSE /\ pc' = "feed"
                     /\ fsm' = [wants |-> TRUE, steps |-> 0]
                     /\ read_offset' = entry.header_offset
                     /\ decompressed' = [i \in 1..entry.uncompressed_size |-> Uninit]
                     /\ write_offset' = 0
                     /\ UNCHANGED result

\* calculate_data_offset: the read of the local header
ReadLocalHeader ==
    /\ pc = "read_header"
    /\ LET entry == entries[op.key]
       IN  /\ io' = Append(io, [call |-> "get_partial",
                                range |-> FromStart(entry.header_offset, Some(30))])
           /\ \E outcome \in StoreOutcomes :
                IF outcome = "err" \/ (outcome = "ok" /\ ~InBlob(blob, entry.header_offset, 30))
                THEN /\ result' = Error("storage error")
                     /\ pc' = "done"
                     /\ UNCHANGED data_offset
                ELSE IF outcome = "absent"
                THEN /\ result' = Error("Cannot read local file header")
                     /\ pc' = "done"
                     /\ UNCHANGED data_offset
                ELSE /\ data_offset' = DataOffsetFromHeader(entry.header_offset,
                                          BlobSlice(blob, entry.header_offset, 30))
                     /\ pc' = "read_data"
                     /\ UNCHANGED result
    /\ UNCHANGED <<index, threads, op, fsm, read_offset, decompressed, write_offset, stream>>

\* get_stored_entry: the translated ranges, handed to the backing store
ReadStoredData ==
    /\ pc = "read_data"
    /\ LET entry == entries[op.key]
           translated == Translate(op.ranges, data_offset, entry.uncompressed_size)
       IN  /\ io' = Append(io, [call |-> "get_partial_many", ranges |-> translated])
           /\ \E outcome \in StoreOutcomes :
                IF outcome = "err"
                   \/ (outcome = "ok" /\ \E i \in 1..Len(translated) :
                          ~InBlob(blob, translated[i].start, translated[i].len.val))
                THEN result' = Error("storage error")
                ELSE IF outcome = "absent"
                THEN result' = Error("Entry data not found")
                ELSE result' = [tag |-> "Ok",
                                bufs |-> [i \in 1..Len(translated) |->
                                            BlobSlice(blob, translated[i].start,
                                                      translated[i].len.val)]]
    /\ pc' = "done"
    /\ UNCHANGED <<index, threads, op, data_offset, fsm, read_offset, decompressed,
                   write_offset, stream>>

\* decompress_entry's loop, first half: feed the EntryFsm if it wants to read
DecompressFeed ==
    /\ pc = "feed"
    /\ IF fsm.wants
       THEN \E space \in Spaces :
              LET remaining == SatSub(size, read_offset)
                  to_read == Min(space, remaining)
              IN  IF to_read > 0
                  THEN /\ io' = Append(io, [call |-> "get_partial",
                                            range |-> FromStart(read_offset, Some(to_read))])
                       /\ \E outcome \in StoreOutcomes :
                            IF outcome = "err"
                            THEN /\ result' = Error("storage error")
                                 /\ pc' = "done"
                                 /\ UNCHANGED read_offset
                            ELSE IF outcome = "absent"
                            THEN /\ result' = Error("Cannot read compressed data")
                                 /\ pc' = "done"
                                 /\ UNCHANGED read_offset
                            ELSE LET copy_len == Min(to_read, space)
                                 IN  /\ read_offset' = read_offset + copy_len
                                     /\ pc' = "process"
                                     /\ UNCHANGED result
                  ELSE /\ pc' = "process"
                       /\ UNCHANGED <<io, read_offset, result>>
       ELSE /\ pc' = "process"
            /\ UNCHANGED <<io, read_offset, result>>
    /\ UNCHANGED <<index, threads, op, data_offset, fsm, decompressed, write_offset, stream>>

\* decompress_entry's loop, second half: fsm.process(out_slice), and what
\* follows the loop when the EntryFsm is done
DecompressProcess ==
    /\ pc = "process"
    /\ LET entry == entries[op.key]
           expected_size == entry.uncompressed_size
           out_len == SatSub(expected_size, write_offset)
       IN  \/ \E k \in 0..out_len, w \in BOOLEAN :
                \* Continue((next_fsm, outcome)) with outcome.bytes_written = k
                /\ fsm.steps < MaxSteps
                /\ LET chunk == [j \in 1..k |-> OutByte(Len(stream) + j)]
                   IN  /\ decompressed' = WriteChunk(decompressed, write_offset, chunk)
                       /\ stream' = stream \o chunk
                /\ write_offset' = write_offset + k
                /\ fsm' = [wants |-> w, steps |-> fsm.steps + 1]
                /\ pc' = "feed"
                /\ UNCHANGED result
           \/ \* Done(_buffer)
              /\ pc' = "done"
              /\ IF write_offset # expected_size
                 THEN result' = Error("zip decompressed entry size mismatch")
                 ELSE \E exposed \in [1..expected_size -> AnyByte \cup {OutByte(i) : i \in 1..MaxSize + 1}] :
                        /\ \A p \in 1..expected_size :
                              IF decompressed[p] = Uninit THEN exposed[p] \in AnyByte
                              ELSE exposed[p] = decompressed[p]
                        /\ result' = SliceAll(exposed, op.ranges, expected_size)
              /\ UNCHANGED <<fsm, decompressed, write_offset, stream>>
           \/ \* Err(e)
              /\ pc' = "done"
              /\ result' = Error("Decompression error")
              /\ UNCHANGED <<fsm, decompressed, write_offset, stream>>
    /\ UNCHANGED <<index, threads, op, io, data_offset, read_offset>>

\* the size an entry takes in the archive
CompressedSizeOf(entry) == entry.compressed_size

\* size_key
SizeOf(entry) == entry.uncompressed_size

SizeKey(key) ==
    /\ pc = "idle"
    /\ op' = [name |-> "size_key", key |-> key]
    /\ result' = [tag |-> "Size",
                  val |-> IF key \in DOMAIN entries THEN Some(SizeOf(entries[key]))
                          ELSE None]
    /\ pc' = "done"
    /\ UNCHANGED <<index, threads, io, reader>>

Next ==
    \/ \E key \in ReadKeys, byte_ranges \in Batches : GetPartialMany(key, byte_ranges)
    \/ ReadLocalHeader
    \/ ReadStoredData
    \/ DecompressFeed
    \/ DecompressProcess
    \/ \E key \in ReadKeys : SizeKey(key)

Spec == Init /\ [][Next]_vars

(***************************************************************************)
(* Archives that are listed: every sequence of at most MaxEntries entries  *)
(* of any kind whose names are at most MaxNameLen bytes, under either      *)
(* root, for which new_with_path succeeds.                                 *)
(***************************************************************************)
Names == Strings(MaxNameLen) \ {<<>>}
Kinds == {"File", "Directory", "Symlink"}
ListRoots == {<<>>, <<97, Slash>>}

ListArchive(root, names, kinds) ==
    [zip_path |-> root,
     parsed |-> [i \in 1..Len(names) |->
                   Entry(names[i], kinds[i], "Store", 40 * i, i, i + 1)],
     blob |-> [size |-> 40 * (Len(names) + 2), hdr |-> <<>>]]

ListArchives ==
    UNION {{ListArchive(root, names, kinds) :
               root \in ListRoots, names \in [1..n -> Names], kinds \in [1..n -> Kinds]} :
           n \in 0..MaxEntries}

(***************************************************************************)
(* Archives of nested directories: up to DeepEntries files and explicit    *)
(* directories whose names, of at most DeepNameLen bytes, are made of 'a'   *)
(* and the separator.                                                      *)
(***************************************************************************)
DeepNames == UNION {[1..k -> {Slash, 97}] : k \in 1..DeepNameLen}

\* <<name, kind>> of an entry that new_with_path accepts
DeepSlots ==
    {<<n, "File">> : n \in {m \in DeepNames : ValidKey(m)}}
    \cup {<<n, "Directory">> : n \in {m \in DeepNames : ValidPrefix(m)}}

DeepArchives ==
    UNION {{ListArchive(<<>>, [i \in 1..n |-> slots[i][1]], [i \in 1..n |-> slots[i][2]]) :
               slots \in [1..n -> DeepSlots]} :
           n \in 1..DeepEntries}

\* the prefixes that are asked for
ListPrefixes ==
    {p \in Strings(MaxNameLen) : ValidPrefix(p)}
    \cup {p \in DeepNames : ValidPrefix(p)}

ListInit ==
    /\ \E a \in ListArchives \cup DeepArchives : Opened(a)
    /\ Idle
    /\ threads = Alone

List ==
    /\ pc = "idle"
    /\ op' = [name |-> "list"]
    /\ result' = [tag |-> "Keys", keys |-> list(sorted_entries)]
    /\ pc' = "done"
    /\ UNCHANGED <<index, threads, io, reader>>

ListPrefix(prefix) ==
    /\ pc = "idle"
    /\ op' = [name |-> "list_prefix", prefix |-> prefix]
    /\ result' = [tag |-> "Keys", keys |-> list_prefix(sorted_entries, prefix)]
    /\ pc' = "done"
    /\ UNCHANGED <<index, threads, io, reader>>

ListDir(prefix) ==
    /\ pc = "idle"
    /\ op' = [name |-> "list_dir", prefix |-> prefix]
    /\ result' = [tag |-> "KeysPrefixes"] @@ list_dir(sorted_entries, prefix)
    /\ pc' = "done"
    /\ UNCHANGED <<index, threads, io, reader>>

\* ListableStorageTraits::size
Size ==
    /\ pc = "idle"
    /\ op' = [name |-> "size"]
    /\ result' = [tag |-> "U64", val |-> size]
    /\ pc' = "done"
    /\ UNCHANGED <<index, threads, io, reader>>

SizePrefix(prefix) ==
    /\ pc = "idle"
    /\ op' = [name |-> "size_prefix", prefix |-> prefix]
    /\ result' = [tag |-> "U64", val |-> size_prefix(sorted_entries, entries, prefix)]
    /\ pc' = "done"
    /\ UNCHANGED <<index, threads, io, reader>>

ListNext ==
    \/ List
    \/ \E prefix \in ListPrefixes : ListPrefix(prefix)
    \/ \E prefix \in ListPrefixes : ListDir(prefix)
    \/ Size
    \/ \E prefix \in ListPrefixes : SizePrefix(prefix)

ListSpec == ListInit /\ [][ListNext]_vars

(***************************************************************************)
(* Opening: new_with_path from the first access to the backing store, and  *)
(* every operation on the adapter it returns.  Until the adapter is        *)
(* returned size, entries and sorted_entries are new_with_path's locals,    *)
(* parsed is what the parser emits if it reaches Done, and fsm is the       *)
(* ArchiveFsm: [wants_read, steps, filled].                                 *)
(***************************************************************************)
\* names inside and outside the root "a/", the root itself, and names that
\* strip to an invalid key or prefix
OpenNames == {<<97>>, <<97, Slash>>, <<97, Slash, 97>>, <<97, Slash, Slash>>}

\* <<name, kind, method>> of an entry
OpenSlots ==
    {<<n, "File", m>> : n \in OpenNames, m \in {"Store", "Deflate"}}
    \cup {<<n, k, "Store">> : n \in OpenNames, k \in {"Directory", "Symlink"}}

\* the bytes the data of an entry takes in the archive
OpenCompressedSize(slot) ==
    IF slot[2] # "File" THEN 0 ELSE IF slot[3] = "Store" THEN 1 ELSE 2

\* the offset of the local header of entry i: the entries lie one after
\* another, each a 30-byte header, its name and its data
RECURSIVE OpenHeaderOffset(_, _)
OpenHeaderOffset(slots, i) ==
    IF i = 1 THEN 0
    ELSE OpenHeaderOffset(slots, i - 1) + 30 + Len(slots[i - 1][1])
            + OpenCompressedSize(slots[i - 1])

OpenArchive(root, slots) ==
    LET n == Len(slots)
    IN  [zip_path |-> root,
         parsed |-> [i \in 1..n |->
                       Entry(slots[i][1], slots[i][2], slots[i][3],
                             OpenHeaderOffset(slots, i), OpenCompressedSize(slots[i]),
                             IF slots[i][2] = "File" THEN 1 ELSE 0)],
         blob |-> [size |-> OpenHeaderOffset(slots, n + 1) + 22,
                   hdr |-> [h \in {OpenHeaderOffset(slots, i) : i \in 1..n} |->
                              LET i == CHOOSE j \in 1..n : OpenHeaderOffset(slots, j) = h
                              IN  [fnlen |-> Len(slots[i][1]), extra |-> 0]]]]

\* the roots an archive is opened with: none, "a/", and a path that is not
\* valid UTF-8
OpenRoots == ListRoots \cup {<<255>>}

OpenArchives ==
    UNION {{OpenArchive(root, slots) :
               root \in OpenRoots, slots \in [1..n -> OpenSlots]} :
           n \in 0..OpenEntries}

\* what ArchiveFsm::wants_read can return for an archive of sz bytes
ParseWants(sz) == {None} \cup {Some(o) : o \in {0, sz - 1, sz, sz + 1}}

OpenKeys == {<<97>>, <<97, Slash, 97>>}
OpenBatches == {<<FromStart(0, None)>>, <<Suffix(1), FromStart(0, Some(1))>>}
OpenPrefixes == {<<>>, <<97, Slash>>}

OpenInit ==
    /\ \E a \in OpenArchives :
          /\ zip_path = a.zip_path
          /\ parsed = a.parsed
          /\ blob = a.blob
    /\ size = 0
    /\ entries = <<>>
    /\ sorted_entries = <<>>
    /\ pc = "new"
    /\ op = [name |-> "new_with_path"]
    /\ result = NoResult
    /\ io = <<>>
    /\ data_offset = 0
    /\ fsm = NoFsm
    /\ read_offset = 0
    /\ decompressed = <<>>
    /\ write_offset = 0
    /\ stream = <<>>
    /\ threads = Alone

\* new_with_path: storage.size_key, and ArchiveFsm::new
NewSizeKey ==
    /\ pc = "new"
    /\ \E outcome \in StoreOutcomes :
          /\ io' = Append(io, [call |-> "size_key", outcome |-> outcome])
          /\ IF outcome = "ok"
             THEN /\ size' = blob.size
                  /\ \E w \in ParseWants(blob.size) :
                        fsm' = [wants_read |-> w, steps |-> 0, filled |-> None]
                  /\ pc' = "parse_feed"
                  /\ UNCHANGED result
             ELSE /\ result' = Error(IF outcome = "err" THEN "storage error"
                                     ELSE "UnknownKeySize")
                  /\ pc' = "failed"
                  /\ UNCHANGED <<size, fsm>>
    /\ UNCHANGED <<zip_path, parsed, blob, threads, entries, sorted_entries, op, data_offset,
                   read_offset, decompressed, write_offset, stream>>

\* parse_archive's loop, first half: feed the ArchiveFsm if it wants to read
ParseFeed ==
    /\ pc = "parse_feed"
    /\ IF fsm.wants_read.tag = "Some"
       THEN \E space \in Spaces :
              LET offset == fsm.wants_read.val
                  remaining == SatSub(size, offset)
                  to_read == Min(space, remaining)
              IN  IF to_read > 0
                  THEN \E outcome \in StoreOutcomes :
                         /\ io' = Append(io, [call |-> "get_partial",
                                              range |-> FromStart(offset, Some(to_read)),
                                              outcome |-> outcome])
                         /\ IF outcome = "ok"
                            THEN /\ fsm' = [fsm EXCEPT !.filled = Some(Min(to_read, space))]
                                 /\ pc' = "parse_process"
                                 /\ UNCHANGED result
                            ELSE /\ result' = Error(IF outcome = "err" THEN "storage error"
                                                    ELSE "Cannot read zip data")
                                 /\ pc' = "failed"
                                 /\ UNCHANGED fsm
                  ELSE /\ fsm' = [fsm EXCEPT !.filled = Some(0)]
                       /\ pc' = "parse_process"
                       /\ UNCHANGED <<io, result>>
       ELSE /\ pc' = "parse_process"
            /\ UNCHANGED <<io, fsm, result>>
    /\ UNCHANGED <<index, threads, op, data_offset, read_offset, decompressed, write_offset,
                   stream>>

\* parse_archive's loop, second half: fsm.process(); on Done the rest of
\* new_with_path, which builds the index and returns the adapter
ParseProcess ==
    /\ pc = "parse_process"
    /\ \/ \E w \in ParseWants(size) :
             \* Continue(next_fsm)
             /\ fsm.steps < MaxSteps
             /\ fsm' = [wants_read |-> w, steps |-> fsm.steps + 1, filled |-> None]
             /\ pc' = "parse_feed"
             /\ UNCHANGED <<entries, sorted_entries, op, result, io>>
       \/ \* Done(archive)
          LET ix == BuildIndex(parsed, zip_path)
          IN  IF ix.ok
              THEN /\ entries' = ix.entries
                   /\ sorted_entries' = ix.sorted_entries
                   /\ pc' = "idle"
                   /\ op' = NoOp
                   /\ result' = NoResult
                   /\ io' = <<>>
                   /\ fsm' = NoFsm
              ELSE /\ result' = Error("invalid store key or prefix")
                   /\ pc' = "failed"
                   /\ UNCHANGED <<entries, sorted_entries, op, io, fsm>>
       \/ \* Err(e)
          /\ result' = Error("zip error")
          /\ pc' = "failed"
          /\ UNCHANGED <<entries, sorted_entries, op, io, fsm>>
    /\ UNCHANGED <<zip_path, parsed, blob, threads, size, data_offset, read_offset, decompressed,
                   write_offset, stream>>

OpenNext ==
    \/ NewSizeKey
    \/ ParseFeed
    \/ ParseProcess
    \/ \E key \in OpenKeys, byte_ranges \in OpenBatches : GetPartialMany(key, byte_ranges)
    \/ ReadLocalHeader
    \/ ReadStoredData
    \/ DecompressFeed
    \/ DecompressProcess
    \/ \E key \in OpenKeys : SizeKey(key)
    \/ List
    \/ \E prefix \in OpenPrefixes : ListPrefix(prefix)
    \/ \E prefix \in OpenPrefixes : ListDir(prefix)
    \/ Size
    \/ \E prefix \in OpenPrefixes : SizePrefix(prefix)

OpenSpec == OpenInit /\ [][OpenNext]_vars

(***************************************************************************)
(* Concurrent calls on one adapter.  Every method takes &self and keeps    *)
(* its state in locals, so a call in progress is its locals; the calls      *)
(* share the adapter and the backing store.  A call runs from one access   *)
(* to the backing store, or one step of its EntryFsm, to the next, and any  *)
(* other call can run in between.                                          *)
(***************************************************************************)
Readers == 1..MaxReaders

\* the locals of the call that runs
Frame ==
    [pc |-> pc, op |-> op, result |-> result, io |-> io, data_offset |-> data_offset,
     fsm |-> fsm, read_offset |-> read_offset, decompressed |-> decompressed,
     write_offset |-> write_offset, stream |-> stream]

\* the locals of a call that has not begun
IdleFrame ==
    [pc |-> "idle", op |-> NoOp, result |-> NoResult, io |-> <<>>, data_offset |-> 0,
     fsm |-> NoFsm, read_offset |-> 0, decompressed |-> <<>>, write_offset |-> 0,
     stream |-> <<>>]

\* a resumption that leaves the output buffer of the call that ran in place
ResumeSharingBuffer(f) ==
    /\ pc' = f.pc
    /\ op' = f.op
    /\ result' = f.result
    /\ io' = f.io
    /\ data_offset' = f.data_offset
    /\ fsm' = f.fsm
    /\ read_offset' = f.read_offset
    /\ decompressed' = decompressed
    /\ write_offset' = f.write_offset
    /\ stream' = f.stream

\* the call whose locals are f runs on
Resume(f) ==
    /\ pc' = f.pc
    /\ op' = f.op
    /\ result' = f.result
    /\ io' = f.io
    /\ data_offset' = f.data_offset
    /\ fsm' = f.fsm
    /\ read_offset' = f.read_offset
    /\ decompressed' = f.decompressed
    /\ write_offset' = f.write_offset
    /\ stream' = f.stream

\* the call that runs is held up and call r runs on
Switch(r) ==
    /\ r \in DOMAIN threads.saved
    /\ threads' = [self |-> r,
                   saved |-> [q \in Readers \ {r} |->
                                IF q = threads.self THEN Frame ELSE threads.saved[q]]]
    /\ Resume(threads.saved[r])
    /\ UNCHANGED index

\* a compressed and a stored file "a" of two bytes, beside the stored ".."
ConcurrentArchives ==
    {ReadArchive(<<>>, "Deflate", 2, FirstLayout),
     ReadArchive(<<>>, "Store", 2, [h |-> 7, fnlen |-> 2, extra |-> 257])}

ConcurrentKeys == {<<97>>, <<46, 46>>}
ConcurrentBatches == {<<FromStart(0, None)>>}

ConcurrentInit ==
    /\ \E a \in ConcurrentArchives : Opened(a)
    /\ Idle
    /\ threads = [self |-> 1, saved |-> [q \in Readers \ {1} |-> IdleFrame]]

ConcurrentNext ==
    \/ \E r \in Readers : Switch(r)
    \/ \E key \in ConcurrentKeys, byte_ranges \in ConcurrentBatches :
          GetPartialMany(key, byte_ranges)
    \/ ReadLocalHeader
    \/ ReadStoredData
    \/ DecompressFeed
    \/ DecompressProcess
    \/ \E key \in ConcurrentKeys : SizeKey(key)
    \/ List
    \/ Size

ConcurrentSpec == ConcurrentInit /\ [][ConcurrentNext]_vars

(***************************************************************************)
(* What the claims speak of.                                               *)
(***************************************************************************)
GetDone == pc = "done" /\ op.name = "get_partial_many"

\* the File entries the parser emitted whose name is the root followed by
\* the non-empty key
FileEntriesOf(key) ==
    {i \in 1..Len(parsed) :
        /\ parsed[i].kind = "File"
        /\ Len(key) > 0
        /\ parsed[i].name = zip_path \o key}

\* the parser's entry of a key: the last one of that name
ParsedEntry(key) ==
    parsed[CHOOSE i \in FileEntriesOf(key) : \A j \in FileEntriesOf(key) : j <= i]

\* a range that lies within an entry of size s, the sums not wrapping
InBounds(range, s) ==
    IF range.kind = "FromStart"
    THEN IF range.len.tag = "Some" THEN range.start + range.len.val <= s
         ELSE range.start <= s
    ELSE range.len <= s

\* [start, start + len) of range within an entry of size s
SliceStart(range, s) == IF range.kind = "FromStart" THEN range.start ELSE s - range.len
SliceLen(range, s) ==
    IF range.kind = "FromStart"
    THEN IF range.len.tag = "Some" THEN range.len.val ELSE s - range.start
    ELSE range.len

\* the data offset of an entry as the archive lays it out
LaidOutDataOffset(entry) ==
    entry.header_offset + 30 + blob.hdr[entry.header_offset].fnlen
        + blob.hdr[entry.header_offset].extra

\* C1: a read of a compressed entry that returns buffers returns one per
\* range, in request order, the i-th being the slice r_i of the bytes the
\* decompressor wrote, in the order it wrote them, in however many steps.
C1_CompressedReadReturnsSlices ==
    (GetDone /\ op.key \in DOMAIN entries /\ entries[op.key].method # "Store"
        /\ result.tag = "Ok")
    => /\ Len(result.bufs) = Len(op.ranges)
       /\ \A i \in 1..Len(op.ranges) :
            LET s == entries[op.key].uncompressed_size
                r == op.ranges[i]
            IN  result.bufs[i] = SubSeq(stream, SliceStart(r, s) + 1,
                                        SliceStart(r, s) + SliceLen(r, s))

\* C2: a read of a stored entry with valid ranges reads the local header and
\* then asks the backing store for exactly the translated ranges, in request
\* order, data_offset being header_offset + 30 + filename_len + extra_len; the
\* bytes returned are the blob's at those offsets, within the entry's data.
C2_StoredReadTranslatesRanges ==
    (GetDone /\ op.key \in DOMAIN entries /\ entries[op.key].method = "Store"
        /\ \A i \in 1..Len(op.ranges) :
              InBounds(op.ranges[i], entries[op.key].uncompressed_size))
    => LET entry == entries[op.key]
           s == entry.uncompressed_size
           d == LaidOutDataOffset(entry)
           want == [i \in 1..Len(op.ranges) |->
                      FromStart(d + SliceStart(op.ranges[i], s),
                                Some(SliceLen(op.ranges[i], s)))]
       IN  /\ Len(io) >= 1
           /\ io[1] = [call |-> "get_partial",
                       range |-> FromStart(entry.header_offset, Some(30))]
           /\ \/ Len(io) = 1 /\ result.tag = "Error"
              \/ /\ Len(io) = 2
                 /\ io[2] = [call |-> "get_partial_many", ranges |-> want]
                 /\ result.tag \in {"Ok", "Error"}
                 /\ result.tag = "Ok" =>
                       /\ Len(result.bufs) = Len(op.ranges)
                       /\ \A i \in 1..Len(op.ranges) :
                            /\ result.bufs[i] = BlobSlice(blob, want[i].start, want[i].len.val)
                            /\ want[i].start >= d
                            /\ want[i].start + want[i].len.val <= d + s

\* C2's case: a stored entry whose header fields need both bytes, read with a
\* to-the-end range and a suffix range, and served
C2_Witness ==
    /\ GetDone
    /\ result.tag = "Ok"
    /\ op.key \in DOMAIN entries
    /\ entries[op.key].method = "Store"
    /\ entries[op.key].uncompressed_size = 2
    /\ blob.hdr[entries[op.key].header_offset].extra > 256
    /\ op.ranges = <<FromStart(1, None), Suffix(2)>>
    /\ Len(result.bufs[2]) = 2

\* C3: a request with a range out of bounds for the entry fails as a whole
\* with an invalid-range error that carries an offending range and the
\* entry's size, and no access to the backing store was made.
C3_OutOfBoundsFailsWholeRequest ==
    (GetDone /\ op.key \in DOMAIN entries
        /\ \E i \in 1..Len(op.ranges) :
              ~InBounds(op.ranges[i], entries[op.key].uncompressed_size))
    => /\ result.tag = "InvalidByteRange"
       /\ result.size = entries[op.key].uncompressed_size
       /\ ~InBounds(result.range, result.size)
       /\ io = <<>>

\* C4: a request with a suffix range longer than the entry is rejected with
\* an invalid-range error, for stored and compressed entries alike.
C4_LongSuffixRejected ==
    (GetDone /\ op.key \in DOMAIN entries
        /\ \E i \in 1..Len(op.ranges) :
              /\ op.ranges[i].kind = "Suffix"
              /\ op.ranges[i].len > entries[op.key].uncompressed_size)
    => result.tag = "InvalidByteRange"

C6_AbsentKeyNotFound ==
    (pc = "done" /\ FileEntriesOf(op.key) = {})
    => /\ op.name = "get_partial_many" => (result = [tag |-> "NotFound"] /\ io = <<>>)
       /\ op.name = "size_key" => (result = [tag |-> "Size", val |-> None] /\ io = <<>>)

\* C6's case: the name of a file outside the root, asked for with a range
\* no entry could serve
C6_Witness ==
    /\ GetDone
    /\ zip_path # <<>>
    /\ op.key = <<46, 46>>
    /\ op.ranges = <<Suffix(U64Max), FromStart(U64Max, Some(U64Max))>>
    /\ result = [tag |-> "NotFound"]

\* C7: size_key of a present key is the uncompressed size the parser recorded
\* for the key's entry, and a read of the key is rejected exactly when a
\* range's end exceeds that same value, which the error carries.
C7_SizeIsRecordedUncompressedSize ==
    (pc = "done" /\ FileEntriesOf(op.key) # {})
    => LET s == ParsedEntry(op.key).uncompressed_size
       IN  /\ op.name = "size_key" => result = [tag |-> "Size", val |-> Some(s)]
           /\ op.name = "get_partial_many" =>
                /\ result.tag = "InvalidByteRange"
                     <=> \E i \in 1..Len(op.ranges) : ValidationEnd(op.ranges[i]) > s
                /\ result.tag = "InvalidByteRange" => result.size = s

\* C7's case: the size of a compressed entry, whose compressed size differs
C7_Witness ==
    /\ pc = "done"
    /\ op.name = "size_key"
    /\ FileEntriesOf(op.key) # {}
    /\ ParsedEntry(op.key).method = "Deflate"
    /\ ParsedEntry(op.key).compressed_size # ParsedEntry(op.key).uncompressed_size
    /\ result = [tag |-> "Size", val |-> Some(2)]

(***************************************************************************)
(* Listing claims.                                                         *)
(***************************************************************************)
\* the keys of the File entries under the root, the root stripped
FileKeys ==
    {SubSeq(parsed[i].name, Len(zip_path) + 1, Len(parsed[i].name)) :
        i \in {j \in 1..Len(parsed) :
                 /\ parsed[j].kind = "File"
                 /\ StartsWith(parsed[j].name, zip_path)
                 /\ Len(parsed[j].name) > Len(zip_path)}}

Range(seq) == {seq[i] : i \in 1..Len(seq)}

StrictlyAscending(seq) ==
    \A i \in 1..Len(seq), j \in 1..Len(seq) : i < j => StrLt(seq[i], seq[j])

RECURSIVE KeepWithPrefix(_, _)
KeepWithPrefix(seq, prefix) ==
    IF Len(seq) = 0 THEN <<>>
    ELSE IF StartsWith(seq[1], prefix)
         THEN <<seq[1]>> \o KeepWithPrefix(Tail(seq), prefix)
         ELSE KeepWithPrefix(Tail(seq), prefix)

\* q is prefix extended by exactly one path segment and its separator
OneSegmentBelow(q, prefix) ==
    /\ StartsWith(q, prefix)
    /\ Len(q) > Len(prefix)
    /\ q[Len(q)] = Slash
    /\ \A i \in (Len(prefix) + 1)..(Len(q) - 1) : q[i] # Slash

\* the immediate child of prefix that holds the key k below it
ChildHolding(k, prefix) ==
    SubSeq(k, 1, Len(prefix) + FindSlash(SubSeq(k, Len(prefix) + 1, Len(k))))

\* C8: list() returns exactly the file keys of the index, each once, in
\* ascending order of their string form, and no directory and no symlink.
C8_ListIsSortedSetOfFileKeys ==
    (pc = "done" /\ op.name = "list")
    => /\ Range(result.keys) = FileKeys
       /\ FileKeys = DOMAIN entries
       /\ StrictlyAscending(result.keys)

\* C9: list_prefix(P) is the subsequence of list() of the keys that start
\* with P, and the two probes bound exactly the entries that start with P.
C9_ListPrefixIsFilteredList ==
    (pc = "done" /\ op.name = "list_prefix")
    => /\ result.keys = KeepWithPrefix(list(sorted_entries), op.prefix)
       /\ LET b == EntriesWithPrefixBounds(sorted_entries, op.prefix)
          IN  \A i \in 1..Len(sorted_entries) :
                 (b[1] < i /\ i <= b[2]) <=> StartsWith(sorted_entries[i].str, op.prefix)

\* C9's case: a prefix that some keys start with and others, before and
\* after them in the index, do not
C9_Witness ==
    /\ pc = "done"
    /\ op.name = "list_prefix"
    /\ op.prefix # <<>>
    /\ Len(sorted_entries) = 2
    /\ Len(result.keys) = 1
    /\ \E k \in FileKeys : ~StartsWith(k, op.prefix)

\* C10: list_dir(P) returns as keys exactly the files whose parent is P, as
\* prefixes only P extended by one segment, one for every file nested
\* deeper, and the prefixes are sorted with none twice.
C10_ListDirImmediateChildren ==
    (pc = "done" /\ op.name = "list_dir")
    => /\ Range(result.keys) = {k \in FileKeys : KeyParent(k) = op.prefix}
       /\ \A i \in 1..Len(result.prefixes) : OneSegmentBelow(result.prefixes[i], op.prefix)
       /\ \A k \in FileKeys :
            (StartsWith(k, op.prefix) /\ KeyParent(k) # op.prefix)
            => Cardinality({i \in 1..Len(result.prefixes) :
                              result.prefixes[i] = ChildHolding(k, op.prefix)}) = 1
       /\ StrictlyAscending(result.prefixes)

\* the explicit directory entries of the index
ExplicitDirs ==
    {sorted_entries[i].str : i \in {j \in 1..Len(sorted_entries) :
                                      sorted_entries[j].variant = "Prefix"}}

\* how many times x occurs in seq
Occurrences(seq, x) == Cardinality({i \in 1..Len(seq) : seq[i] = x})

\* C11: an explicit directory that is P extended by exactly one segment is
\* in list_dir(P).prefixes exactly once; list_dir(D) never returns D itself
\* and is empty when nothing lies below D; list() and list_prefix() return
\* no explicit directory.
C11_ExplicitDirectoriesInListDir ==
    /\ (pc = "done" /\ op.name = "list_dir")
       => /\ \A d \in ExplicitDirs :
                /\ OneSegmentBelow(d, op.prefix) => Occurrences(result.prefixes, d) = 1
                /\ d = op.prefix => Occurrences(result.prefixes, d) = 0
          /\ (/\ op.prefix \in ExplicitDirs
              /\ \A i \in 1..Len(sorted_entries) :
                    StartsWith(sorted_entries[i].str, op.prefix)
                    => sorted_entries[i].str = op.prefix)
             => (result.keys = <<>> /\ result.prefixes = <<>>)
    /\ (pc = "done" /\ op.name \in {"list", "list_prefix"})
       => \A d \in ExplicitDirs : Occurrences(result.keys, d) = 0

\* C12: an explicit directory two or more segments below P is discoverable
\* from P: list_dir(P).prefixes holds the immediate child of P above it.
C12_DeepDirectoriesDiscoverable ==
    (pc = "done" /\ op.name = "list_dir")
    => \A d \in ExplicitDirs :
          (StartsWith(d, op.prefix) /\ d # op.prefix /\ ~OneSegmentBelow(d, op.prefix))
          => Occurrences(result.prefixes, ChildHolding(d, op.prefix)) >= 1

\* the sum of the compressed sizes of the file entries of the keys in ks,
\* each key's entry once
RECURSIVE CompressedSizeOfKeys(_)
CompressedSizeOfKeys(ks) ==
    IF ks = {} THEN 0
    ELSE LET k == CHOOSE x \in ks : TRUE
         IN  ParsedEntry(k).compressed_size + CompressedSizeOfKeys(ks \ {k})

\* C13: size_prefix(P) is the sum of compressed_size over the file entries
\* whose key starts with P, each once, directories adding nothing; size() is
\* the byte length of the archive blob.
C13_SizePrefixSumsCompressedSizes ==
    /\ (pc = "done" /\ op.name = "size_prefix")
       => result.val = CompressedSizeOfKeys({k \in FileKeys : StartsWith(k, op.prefix)})
    /\ (pc = "done" /\ op.name = "size") => result.val = blob.size

\* the names, the root stripped, of the File and Directory entries that lie
\* under the root with a non-empty remainder
ExposedNames ==
    {SubSeq(parsed[i].name, Len(zip_path) + 1, Len(parsed[i].name)) :
        i \in {j \in 1..Len(parsed) :
                 /\ parsed[j].kind \in {"File", "Directory"}
                 /\ StartsWith(parsed[j].name, zip_path)
                 /\ Len(parsed[j].name) > Len(zip_path)}}

\* C14: an adapter opened with root R exposes exactly the entries whose name
\* is R followed by a non-empty remainder, under that remainder: nothing
\* else is listed, sized or read, and a read of a stripped key is served from
\* the entry of the un-stripped name.
C14_RootPathStripped ==
    /\ (pc = "done" /\ op.name = "list") => Range(result.keys) = FileKeys
    /\ (pc = "done" /\ op.name = "list_prefix")
       => Range(result.keys) = {k \in FileKeys : StartsWith(k, op.prefix)}
    /\ (pc = "done" /\ op.name = "list_dir")
       => /\ Range(result.keys) \subseteq FileKeys
          /\ \A q \in Range(result.prefixes) : \E n \in ExposedNames : StartsWith(n, q)
    /\ (pc = "done" /\ op.name = "size_key")
       => result.val = IF op.key \in FileKeys
                       THEN Some(ParsedEntry(op.key).uncompressed_size) ELSE None
    /\ GetDone
       => /\ op.key \notin FileKeys => result = [tag |-> "NotFound"]
          /\ op.key \in FileKeys =>
                LET original == ParsedEntry(op.key)
                IN  /\ Len(io) >= 1 => io[1].range.start = original.header_offset
                    /\ (original.method = "Store" /\ result.tag = "Ok") =>
                          \A i \in 1..Len(op.ranges) :
                             result.bufs[i] =
                                BlobSlice(blob,
                                          LaidOutDataOffset(original)
                                             + SliceStart(op.ranges[i], original.uncompressed_size),
                                          SliceLen(op.ranges[i], original.uncompressed_size))

\* where an operation on a returned adapter can stand
OpenedPcs == {"idle", "read_header", "read_data", "feed", "process", "done"}

\* the entries of the parser that are files or directories under the root
UnderRoot ==
    {i \in 1..Len(parsed) :
        /\ parsed[i].kind \in {"File", "Directory"}
        /\ StartsWith(parsed[i].name, zip_path)
        /\ Len(parsed[i].name) > Len(zip_path)}

Stripped(i) == SubSeq(parsed[i].name, Len(zip_path) + 1, Len(parsed[i].name))

\* C15: new_with_path goes on only while the size is known and every access
\* to the backing store succeeded; when it fails it returns an error and no
\* index, whole or partial; and an adapter exists only with every file and
\* directory under the root valid and indexed.
C15_ConstructionAllOrNothing ==
    /\ pc \in {"parse_feed", "parse_process"}
       => /\ Len(io) >= 1
          /\ io[1] = [call |-> "size_key", outcome |-> "ok"]
          /\ size = blob.size
          /\ \A i \in 1..Len(io) : io[i].outcome = "ok"
          /\ entries = <<>> /\ sorted_entries = <<>>
    /\ pc = "failed"
       => /\ result.tag = "Error"
          /\ entries = <<>> /\ sorted_entries = <<>>
    /\ pc \in OpenedPcs
       => /\ size = blob.size
          /\ \A i \in UnderRoot :
                IF parsed[i].kind = "File"
                THEN /\ ValidKey(Stripped(i))
                     /\ Stripped(i) \in DOMAIN entries
                     /\ Occurrences(sorted_entries, ZKey(Stripped(i))) >= 1
                ELSE /\ ValidPrefix(Stripped(i))
                     /\ Occurrences(sorted_entries, ZPrefix(Stripped(i))) >= 1

\* C15's case: the second entry under the root strips to an invalid prefix
\* after the first was accepted, and opening fails with nothing indexed
C15_Witness ==
    /\ pc = "failed"
    /\ result = Error("invalid store key or prefix")
    /\ zip_path = <<97, Slash>>
    /\ Len(parsed) = 2
    /\ parsed[1].name = <<97, Slash, 97>> /\ parsed[1].kind = "File"
    /\ parsed[2].name = <<97, Slash, 97>> /\ parsed[2].kind = "Directory"
    /\ \A i \in 1..Len(io) : io[i].outcome = "ok"
    /\ entries = <<>> /\ sorted_entries = <<>>

\* the locals of call r
FrameOf(r) == IF r = threads.self THEN Frame ELSE threads.saved[r]

\* the bytes the accesses of io asked for, all told
RECURSIVE BytesAsked(_)
BytesAsked(accesses) ==
    IF Len(accesses) = 0 THEN 0
    ELSE accesses[1].range.len.val + BytesAsked(Tail(accesses))

\* a call whose locals f hold what the call alone has read and written, and
\* whose result is the one it returns when nothing else runs
RunsAsAlone(f) ==
    /\ \A i \in 1..Len(f.io) : f.io[i].call \in {"get_partial", "get_partial_many"}
    /\ f.pc \in {"feed", "process"}
       => LET entry == entries[f.op.key]
          IN  /\ Len(f.decompressed) = entry.uncompressed_size
              /\ f.write_offset = Len(f.stream)
              /\ \A p \in 1..Len(f.decompressed) :
                    f.decompressed[p] # Uninit
                    => \E j \in 1..Len(f.stream) : f.stream[j] = f.decompressed[p]
              /\ f.read_offset = entry.header_offset + BytesAsked(f.io)
    /\ (f.pc = "done" /\ f.op.name = "get_partial_many")
       => IF f.op.key \notin DOMAIN entries
          THEN f.result = [tag |-> "NotFound"] /\ f.io = <<>>
          ELSE LET entry == entries[f.op.key]
                   s == entry.uncompressed_size
               IN  f.result.tag = "Ok"
                   => /\ Len(f.result.bufs) = Len(f.op.ranges)
                      /\ \A i \in 1..Len(f.op.ranges) :
                            IF entry.method = "Store"
                            THEN f.result.bufs[i] =
                                    BlobSlice(blob,
                                              LaidOutDataOffset(entry)
                                                 + SliceStart(f.op.ranges[i], s),
                                              SliceLen(f.op.ranges[i], s))
                            ELSE /\ Len(f.stream) = s
                                 /\ Len(f.result.bufs[i]) = SliceLen(f.op.ranges[i], s)
                                 /\ \A p \in 1..Len(f.result.bufs[i]) :
                                       \/ f.result.bufs[i][p] \in AnyByte
                                       \/ \E j \in 1..Len(f.stream) :
                                             f.stream[j] = f.result.bufs[i][p]
    /\ (f.pc = "done" /\ f.op.name = "size_key")
       => f.result.val = IF f.op.key \in DOMAIN entries
                         THEN Some(entries[f.op.key].uncompressed_size) ELSE None

\* C16: no operation on the adapter changes the index or writes to the
\* backing store, and every call, however the others are interleaved with
\* it, holds only what it read and wrote itself and returns what it returns
\* alone.
C16_ReadsAreIndependent ==
    /\ [](\A r \in Readers : RunsAsAlone(FrameOf(r)))
    /\ [][UNCHANGED index]_vars

\* C16's case: two reads of the same compressed key, the one that began
\* first held up after its first byte while the other ran to its end
C16_Witness ==
    /\ threads.self = 2
    /\ pc = "done"
    /\ op = [name |-> "get_partial_many", key |-> <<97>>, ranges |-> <<FromStart(0, None)>>]
    /\ result.tag = "Ok"
    /\ FrameOf(1).op = op
    /\ FrameOf(1).pc = "feed"
    /\ FrameOf(1).write_offset = 1

\* C17: a read of a compressed entry returns buffer content only when the
\* decompressor is done with exactly uncompressed_size bytes reported
\* written, and then every position of the buffer holds a byte that was
\* written; in every other case the read fails with an error.
C17_BufferExposedOnlyWhenWritten ==
    (GetDone /\ op.key \in DOMAIN entries /\ entries[op.key].method # "Store"
        /\ result.tag # "InvalidByteRange")
    => LET s == entries[op.key].uncompressed_size
       IN  /\ write_offset # s => result.tag = "Error"
           /\ result.tag = "Ok"
              => /\ write_offset = s
                 /\ Len(decompressed) = s
                 /\ \A p \in 1..s : decompressed[p] # Uninit
                 /\ \A i \in 1..Len(op.ranges) :
                       result.bufs[i] =
                          SubSeq(decompressed, SliceStart(op.ranges[i], s) + 1,
                                 SliceStart(op.ranges[i], s) + SliceLen(op.ranges[i], s))

\* one more access than io: a get_partial of n bytes at offset o, with
\* 1 <= n <= min(buffer space, bytes left before the archive's end)
OneReadAt(o) ==
    /\ Len(io') = Len(io) + 1
    /\ SubSeq(io', 1, Len(io)) = io
    /\ LET access == io'[Len(io')]
       IN  /\ access.call = "get_partial"
           /\ access.range.kind = "FromStart"
           /\ access.range.start = o
           /\ access.range.len.tag = "Some"
           /\ access.range.len.val >= 1
           /\ \E space \in Spaces : access.range.len.val <= Min(space, size - o)

\* the bytes the last access of the next state asked for
BytesRead == io'[Len(io')].range.len.val

\* a step of parse_archive's loop as the claim has it
ParseLoopStep ==
    /\ (pc = "parse_feed" /\ fsm.wants_read.tag = "Some")
       => LET o == fsm.wants_read.val
          IN  IF o < size
              THEN /\ OneReadAt(o)
                   /\ \/ pc' = "parse_process" /\ fsm'.filled = Some(BytesRead)
                      \/ pc' = "failed" /\ result'.tag = "Error"
              ELSE /\ io' = io
                   /\ pc' = "parse_process"
                   /\ fsm'.filled = Some(0)
    /\ (pc = "parse_feed" /\ fsm.wants_read.tag = "None")
       => (io' = io /\ pc' = "parse_process" /\ fsm' = fsm)
    /\ pc = "parse_process"
       => /\ io' = io \/ pc' = "idle"
          /\ \/ pc' = "parse_feed" /\ fsm'.steps = fsm.steps + 1
             \/ pc' = "idle"
             \/ pc' = "failed" /\ result'.tag = "Error"

\* a step of decompress_entry's loop as the claim has it
DecompressLoopStep ==
    /\ (pc = "feed" /\ fsm.wants)
       => IF read_offset < size
          THEN /\ OneReadAt(read_offset)
               /\ \/ pc' = "process" /\ read_offset' = read_offset + BytesRead
                  \/ pc' = "done" /\ result'.tag = "Error"
          ELSE /\ io' = io
               /\ pc' = "process"
               /\ read_offset' = read_offset
    /\ (pc = "feed" /\ ~fsm.wants)
       => (io' = io /\ pc' = "process" /\ read_offset' = read_offset)
    /\ pc = "process"
       => /\ io' = io
          /\ read_offset' = read_offset
          /\ \/ pc' = "feed" /\ fsm'.steps = fsm.steps + 1
             \/ pc' = "done" /\ result'.tag \in {"Ok", "Error", "Panic"}

\* the reads of a decompression begin at header_offset and each begins where
\* the one before ended
ReadsAreContiguous ==
    pc \in {"feed", "process"}
    => /\ read_offset = entries[op.key].header_offset + BytesAsked(io)
       /\ \A i \in 1..Len(io) :
             io[i].range.start
                = entries[op.key].header_offset + BytesAsked(SubSeq(io, 1, i - 1))

====
